---- MODULE Spec2Model ----
(***************************************************************************)
(* Model of koa-isbot: the BotDetectionCache (LRU map with TTL) and the    *)
(* koaIsBot middleware that classifies a request's user agent, caches the  *)
(* result, publishes it into ctx.state and drives the callbacks.           *)
(*                                                                         *)
(* Strings are kept run-length encoded: a string is a sequence of runs     *)
(* [ch, n] (n >= 1, adjacent runs of different characters), so that user   *)
(* agents longer than the 2048-character limit stay small in the state.    *)
(* The alphabet is abstract: "x" is filler, "g" and "l" are signatures of  *)
(* the isbot library list, "m" is a signature only a custom pattern knows, *)
(* and "G" is the upper-case form of "g".                                  *)
(***************************************************************************)
EXTENDS Integers, Sequences, FiniteSets, TLC

(***************************************************************************)
(* Bounds of the model                                                     *)
(***************************************************************************)
MaxCap == 3
MaxClock == 1
MaxReq == 2
MaxCacheSize == 2
MaxIntervals == 1

(***************************************************************************)
(* Program constants                                                       *)
(***************************************************************************)
MaxUALength == 2048
CleanupInterval == 600000

(***************************************************************************)
(* Strings                                                                 *)
(***************************************************************************)
Min(a, b) == IF a <= b THEN a ELSE b

EmptyStr == <<>>

Str(c, n) == <<[ch |-> c, n |-> n]>>

\* a + b on run-length encoded strings (keeps the encoding normal)
Concat(a, b) ==
  IF a = <<>> THEN b
  ELSE IF b = <<>> THEN a
  ELSE IF a[Len(a)].ch = b[1].ch
       THEN SubSeq(a, 1, Len(a) - 1)
            \o <<[ch |-> b[1].ch, n |-> a[Len(a)].n + b[1].n]>>
            \o Tail(b)
       ELSE a \o b

RECURSIVE StrLen(_)
StrLen(s) == IF s = <<>> THEN 0 ELSE Head(s).n + StrLen(Tail(s))

\* String.prototype.slice(0, k)
RECURSIVE Slice(_, _)
Slice(s, k) ==
  IF s = <<>> \/ k <= 0 THEN <<>>
  ELSE IF Head(s).n <= k
       THEN <<Head(s)>> \o Slice(Tail(s), k - Head(s).n)
       ELSE <<[ch |-> Head(s).ch, n |-> k]>>

LowerChar(c) == IF c = "G" THEN "g" ELSE IF c = "M" THEN "m" ELSE c

\* String.prototype.toLowerCase()
RECURSIVE ToLowerCase(_)
ToLowerCase(s) ==
  IF s = <<>> THEN <<>>
  ELSE Concat(<<[ch |-> LowerChar(Head(s).ch), n |-> Head(s).n]>>,
              ToLowerCase(Tail(s)))

\* the values JavaScript treats as "no string": undefined and null
Undefined == <<[undefined |-> TRUE]>>

\* !ua
\* a test that takes only a missing user agent for none (=== undefined)
Falsy_OnlyUndefined(ua) == ua = Undefined

\* !userAgent
Falsy(ua) == ua = Undefined \/ ua = EmptyStr

SeqToSet(q) == {q[i] : i \in 1..Len(q)}

\* every match of a case-insensitive alternation of single-character
\* patterns in s, leftmost first, each given as the matched text
RECURSIVE AllMatches(_, _)
AllMatches(s, pats) ==
  IF s = <<>> THEN <<>>
  ELSE (IF LowerChar(Head(s).ch) \in {LowerChar(p) : p \in pats}
        THEN [i \in 1..Head(s).n |-> Head(s).ch]
        ELSE <<>>) \o AllMatches(Tail(s), pats)

(***************************************************************************)
(* The isbot library                                                       *)
(***************************************************************************)
Null == "null"

\* the library's pattern list
list == <<"g", "l">>

\* isbot(ua): does any list pattern match
isbot(ua) ==
  IF Falsy(ua) THEN FALSE ELSE AllMatches(ua, SeqToSet(list)) # <<>>

\* isbotMatch(ua): the first match of the combined pattern, or null
isbotMatch(ua) ==
  IF Falsy(ua) \/ AllMatches(ua, SeqToSet(list)) = <<>> THEN Null
  ELSE AllMatches(ua, SeqToSet(list))[1]

\* isbotMatches(ua): for every list pattern that matches, in list order,
\* its first match
RECURSIVE MatchesInListOrder(_, _)
MatchesInListOrder(ua, ps) ==
  IF ps = <<>> THEN <<>>
  ELSE (IF AllMatches(ua, {Head(ps)}) = <<>> THEN <<>>
        ELSE <<AllMatches(ua, {Head(ps)})[1]>>)
       \o MatchesInListOrder(ua, Tail(ps))

isbotMatches(ua) ==
  IF Falsy(ua) THEN <<>> ELSE MatchesInListOrder(ua, list)

\* isbotPatterns(ua): the list patterns that match ua
isbotPatterns(ua) ==
  IF Falsy(ua) THEN <<>>
  ELSE SelectSeq(list, LAMBDA p : AllMatches(ua, {p}) # <<>>)

(***************************************************************************)
(* BotDetectionCache: a Map in insertion order, entries                    *)
(* [key, result, timestamp]                                                *)
(***************************************************************************)
CacheKeysOf(c) == {c[i].key : i \in 1..Len(c)}

\* Map.prototype.get: the index of the entry for k, 0 when absent
IndexOf(c, k) ==
  IF k \in CacheKeysOf(c) THEN CHOOSE i \in 1..Len(c) : c[i].key = k ELSE 0

\* Map.prototype.delete
MapDelete(c, k) == SelectSeq(c, LAMBDA e : e.key # k)

\* Map.prototype.set: an existing key keeps its position, a new one is
\* appended
MapSet(c, k, r, ts) ==
  IF IndexOf(c, k) # 0
  THEN [c EXCEPT ![IndexOf(c, k)] = [key |-> k, result |-> r, timestamp |-> ts]]
  ELSE Append(c, [key |-> k, result |-> r, timestamp |-> ts])

NoResult == [null |-> TRUE]

\* an expiry comparison that already drops an entry of age ttl
Expired_AtTtl(e, t, ttlv) == t - e.timestamp >= ttlv

\* Date.now() - entry.timestamp > this.ttl
Expired(e, t, ttlv) == t - e.timestamp > ttlv

\* a get that forgets the expiry comparison
CacheGetResult_IgnoreTtl(c, k, t, ttlv) ==
  IF IndexOf(c, k) = 0 THEN NoResult ELSE c[IndexOf(c, k)].result

\* get(userAgent): the value returned
CacheGetResult(c, k, t, ttlv) ==
  IF IndexOf(c, k) = 0 THEN NoResult
  ELSE IF Expired(c[IndexOf(c, k)], t, ttlv) THEN NoResult
  ELSE c[IndexOf(c, k)].result

\* a get that, on its way, drops every entry older than ttl
CacheAfterGet_Sweeps(c, k, t, ttlv) ==
  IF IndexOf(c, k) = 0 \/ Expired(c[IndexOf(c, k)], t, ttlv)
  THEN SelectSeq(c, LAMBDA e : ~Expired(e, t, ttlv))
  ELSE Append(SelectSeq(c, LAMBDA e : e.key # k /\ ~Expired(e, t, ttlv)),
              c[IndexOf(c, k)])

\* a get that stamps the entry it returns with the time of the get
CacheAfterGet_RefreshesTimestamp(c, k, t, ttlv) ==
  IF IndexOf(c, k) = 0 THEN c
  ELSE IF Expired(c[IndexOf(c, k)], t, ttlv) THEN MapDelete(c, k)
  ELSE Append(MapDelete(c, k), [c[IndexOf(c, k)] EXCEPT !.timestamp = t])

\* get(userAgent): the map afterwards
CacheAfterGet(c, k, t, ttlv) ==
  IF IndexOf(c, k) = 0 THEN c
  ELSE IF Expired(c[IndexOf(c, k)], t, ttlv) THEN MapDelete(c, k)
  ELSE Append(MapDelete(c, k), c[IndexOf(c, k)])

\* a set that evicts the newest entry instead of the oldest
CacheAfterSet_EvictNewest(c, k, r, t, cap) ==
  MapSet(IF Len(c) >= cap /\ Len(c) > 0 THEN SubSeq(c, 1, Len(c) - 1) ELSE c,
         k, r, t)

\* a set that refuses the write when the cache is full
CacheAfterSet_RejectsWhenFull(c, k, r, t, cap) ==
  IF Len(c) >= cap THEN c ELSE MapSet(c, k, r, t)

\* set(userAgent, result): the map afterwards
CacheAfterSet(c, k, r, t, cap) ==
  MapSet(IF Len(c) >= cap /\ Len(c) > 0 THEN Tail(c) ELSE c, k, r, t)

\* a clear that leaves the newest entry
CacheAfterClear_KeepsNewest(c) == IF c = <<>> THEN c ELSE <<c[Len(c)]>>

\* clear()
CacheAfterClear(c) == <<>>

\* a cleanup that also removes the entries exactly ttl old
CacheAfterCleanup_AtTtl(c, t, ttlv) ==
  SelectSeq(c, LAMBDA e : t - e.timestamp < ttlv)

\* cleanup()
CacheAfterCleanup(c, t, ttlv) == SelectSeq(c, LAMBDA e : ~Expired(e, t, ttlv))

(***************************************************************************)
(* koaIsBot(options): the detector                                         *)
(***************************************************************************)
\* customPatterns.map((p) => (p instanceof RegExp ? p.source : p))
customStrings(cfg) ==
  [i \in 1..Len(cfg.customPatterns) |->
     IF cfg.customPatterns[i].regexp THEN cfg.customPatterns[i].source
     ELSE cfg.customPatterns[i].text]

\* new Set(excludePatterns.flatMap((pattern) => isbotPatterns(pattern)))
patternsToRemove(cfg) ==
  UNION {SeqToSet(isbotPatterns(cfg.excludePatterns[i])) :
           i \in 1..Len(cfg.excludePatterns)}

Customized(cfg) == Len(cfg.customPatterns) > 0 \/ Len(cfg.excludePatterns) > 0

\* a pattern list that leaves the exclusions out of account
patterns_IgnoresExclusions(cfg) ==
  IF Len(cfg.customPatterns) > 0 THEN list \o customStrings(cfg) ELSE list

\* a pattern list in which the custom patterns replace the library's
patterns_OnlyCustom(cfg) ==
  LET added == IF Len(cfg.customPatterns) > 0 THEN customStrings(cfg) ELSE list
  IN IF Len(cfg.excludePatterns) > 0
     THEN SelectSeq(added, LAMBDA p : p \notin patternsToRemove(cfg))
     ELSE added

\* the pattern list of a customized detector
patterns(cfg) ==
  LET added == IF Len(cfg.customPatterns) > 0
               THEN list \o customStrings(cfg) ELSE list
  IN IF Len(cfg.excludePatterns) > 0
     THEN SelectSeq(added, LAMBDA p : p \notin patternsToRemove(cfg))
     ELSE added

\* new RegExp(patterns.join('|'), 'i') run over s: every match, leftmost first
\* (the empty alternation matches the empty string at every position)
PatternMatches(cfg, s) ==
  IF patterns(cfg) = <<>> THEN [i \in 1..(StrLen(s) + 1) |-> ""]
  ELSE AllMatches(s, SeqToSet(patterns(cfg)))

customIsBot(cfg, ua) ==
  IF Customized(cfg)
  THEN PatternMatches(cfg, IF Falsy(ua) THEN EmptyStr ELSE ua) # <<>>
  ELSE isbot(ua)

customIsbotMatch(cfg, ua) ==
  IF Customized(cfg)
  THEN IF Falsy(ua) \/ PatternMatches(cfg, ToLowerCase(ua)) = <<>> THEN Null
       ELSE PatternMatches(cfg, ToLowerCase(ua))[1]
  ELSE isbotMatch(ua)

customIsbotMatches(cfg, ua) ==
  IF Customized(cfg)
  THEN IF Falsy(ua) THEN <<>> ELSE PatternMatches(cfg, ToLowerCase(ua))
  ELSE isbotMatches(ua)

\* a sanitizer that does not limit the length
Sanitize_NoLimit(userAgent) ==
  IF Falsy(userAgent) THEN EmptyStr ELSE userAgent

\* String(userAgent || '').slice(0, 2048)
Sanitize(userAgent) ==
  Slice(IF Falsy(userAgent) THEN EmptyStr ELSE userAgent, MaxUALength)

\* a detector that runs the matchers on the whole user agent and cuts only
\* the text it reports
detectBot_ClassifiesRaw(cfg, userAgent) ==
  [isBot |-> customIsBot(cfg, userAgent),
   botName |-> customIsbotMatch(cfg, userAgent),
   botPatterns |-> customIsbotMatches(cfg, userAgent),
   userAgent |-> Sanitize(userAgent)]

detectBot(cfg, userAgent) ==
  [isBot |-> customIsBot(cfg, Sanitize(userAgent)),
   botName |-> customIsbotMatch(cfg, Sanitize(userAgent)),
   botPatterns |-> customIsbotMatches(cfg, Sanitize(userAgent)),
   userAgent |-> Sanitize(userAgent)]

\* a result for a request without user agent that leaves userAgent undefined
EmptyUAResult_UndefinedUA ==
  [isBot |-> FALSE, botName |-> Null, botPatterns |-> <<>>,
   userAgent |-> Undefined]

\* what is published for a request without user agent
EmptyUAResult ==
  [isBot |-> FALSE, botName |-> Null, botPatterns |-> <<>>,
   userAgent |-> EmptyStr]

(***************************************************************************)
(* State                                                                   *)
(***************************************************************************)
VARIABLES
  now,        \* Date.now()
  cache,      \* a BotDetectionCache built directly: its Map
  maxSize,    \* ... its maxSize
  ttl,        \* ... its ttl
  lastOp,     \* the last call made on it, with what it saw and returned
  useOrder,   \* the stored keys by their last set or successful get,
              \* oldest first
  inserted,   \* while every call so far was a set of a key never set
              \* before: those keys in the order they were set
  plain,      \* every call so far was a set of a key never set before
  noExpiry,   \* no entry has been older than ttl so far
  config,     \* per koaIsBot(options) call: the merged options
  mwCache,    \* per koaIsBot call: the Map of its cache (empty when disabled)
  nextCleanupAt, \* per koaIsBot call: when its cleanup interval is next due
  req,        \* the requests: where each handler stands, and its ctx
  started     \* how many requests have arrived

cacheVars == <<cache, maxSize, ttl, lastOp, useOrder, inserted, plain, noExpiry>>

mwVars == <<config, mwCache, nextCleanupAt, req, started>>

(***************************************************************************)
(* A BotDetectionCache driven directly, as the cache tests do              *)
(***************************************************************************)
\* createResult(isBot, botName) of the cache tests
createResult(b, name) ==
  [isBot |-> b, botName |-> name,
   botPatterns |-> IF name # Null THEN <<name>> ELSE <<>>,
   userAgent |-> Str("x", 4)]

TestKeys == {Str("g", 1), Str("l", 1), Str("x", 1)}
\* one key more than the largest capacity, to fill a cache and overflow it
LruKeys == {Str("x", i) : i \in 1..(MaxCap + 1)}
TestResults == {createResult(TRUE, "g"), createResult(FALSE, Null)}
TestTTLs == {0, 1}

NoOp ==
  [op |-> "new", key |-> EmptyStr, ret |-> NoResult, age |-> -1,
   sizeBefore |-> 0, evicted |-> {}, lruBefore |-> {}]

\* the key whose last set or successful get is oldest, among those stored
LruKey(c, order) ==
  IF CacheKeysOf(c) = {} THEN {}
  ELSE LET i == CHOOSE j \in 1..Len(order) :
                  /\ order[j] \in CacheKeysOf(c)
                  /\ \A h \in 1..(j - 1) : order[h] \notin CacheKeysOf(c)
       IN {order[i]}

Touch(order, k) == Append(SelectSeq(order, LAMBDA x : x # k), k)

Stored(order, c) == SelectSeq(order, LAMBDA x : x \in CacheKeysOf(c))

AgeOf(c, k, t) == IF IndexOf(c, k) = 0 THEN -1 ELSE t - c[IndexOf(c, k)].timestamp

AllFresh(c, t, ttlv) == \A i \in 1..Len(c) : ~Expired(c[i], t, ttlv)

(***************************************************************************)
(* The middleware                                                          *)
(***************************************************************************)
\* two calls of koaIsBot(options), each returning a middleware
Instances == {"A", "B"}

Requests == 1..MaxReq

StateKeys == {"isBot", "bot", "user"}

Unset == [unset |-> TRUE]

\* ctx.state as the request arrives: another middleware's data under "user"
FreshCtxState == [k \in StateKeys |-> IF k = "user" THEN [id |-> 1] ELSE Unset]

DEFAULT_OPTIONS ==
  [customPatterns |-> <<>>, excludePatterns |-> <<>>, stateKey |-> "isBot",
   cache |-> TRUE, cacheSize |-> 1000, cacheTTL |-> 3600000,
   onDetection |-> FALSE, onBotDetected |-> FALSE]

NewRequest ==
  [pc |-> "new", inst |-> "A", ua |-> Undefined, result |-> NoResult,
   state |-> FreshCtxState, log |-> <<>>, at |-> 0, error |-> "none"]

\* no middleware in use: the state of the middleware part while a cache is
\* driven directly
MiddlewareIdle ==
  /\ config = [i \in Instances |-> DEFAULT_OPTIONS]
  /\ mwCache = [i \in Instances |-> <<>>]
  /\ nextCleanupAt = [i \in Instances |-> CleanupInterval]
  /\ req = [r \in Requests |-> NewRequest]
  /\ started = 0

\* no cache driven directly: the state of that part while the middleware runs
CacheIdle ==
  /\ cache = <<>>
  /\ maxSize = 0
  /\ ttl = 0
  /\ lastOp = NoOp
  /\ useOrder = <<>>
  /\ inserted = <<>>
  /\ plain = TRUE
  /\ noExpiry = TRUE

CacheInit ==
  /\ now = 0
  /\ cache = <<>>
  /\ maxSize \in 0..MaxCap
  /\ ttl \in TestTTLs
  /\ lastOp = NoOp
  /\ useOrder = <<>>
  /\ inserted = <<>>
  /\ plain = TRUE
  /\ noExpiry = TRUE
  /\ MiddlewareIdle

Set(k, r) ==
  /\ cache' = CacheAfterSet(cache, k, r, now, maxSize)
  /\ lastOp' = [op |-> "set", key |-> k, ret |-> r, age |-> AgeOf(cache, k, now),
                sizeBefore |-> Len(cache),
                evicted |-> CacheKeysOf(cache) \ CacheKeysOf(cache'),
                lruBefore |-> LruKey(cache, useOrder)]
  /\ useOrder' = Stored(Touch(useOrder, k), cache')
  /\ plain' = (plain /\ k \notin SeqToSet(inserted))
  /\ inserted' = IF plain' THEN Append(inserted, k) ELSE <<>>
  /\ UNCHANGED <<now, maxSize, ttl, noExpiry>>
  /\ UNCHANGED mwVars

Get(k) ==
  /\ cache' = CacheAfterGet(cache, k, now, ttl)
  /\ lastOp' = [op |-> "get", key |-> k,
                ret |-> CacheGetResult(cache, k, now, ttl),
                age |-> AgeOf(cache, k, now),
                sizeBefore |-> Len(cache),
                evicted |-> CacheKeysOf(cache) \ CacheKeysOf(cache'),
                lruBefore |-> LruKey(cache, useOrder)]
  /\ useOrder' = Stored(IF CacheGetResult(cache, k, now, ttl) # NoResult
                        THEN Touch(useOrder, k) ELSE useOrder, cache')
  /\ plain' = FALSE
  /\ inserted' = <<>>
  /\ UNCHANGED <<now, maxSize, ttl, noExpiry>>
  /\ UNCHANGED mwVars

Clear ==
  /\ cache' = CacheAfterClear(cache)
  /\ lastOp' = [NoOp EXCEPT !.op = "clear", !.sizeBefore = Len(cache),
                            !.evicted = CacheKeysOf(cache)]
  /\ plain' = FALSE
  /\ inserted' = <<>>
  /\ useOrder' = Stored(useOrder, cache')
  /\ UNCHANGED <<now, maxSize, ttl, noExpiry>>
  /\ UNCHANGED mwVars

Cleanup ==
  /\ cache' = CacheAfterCleanup(cache, now, ttl)
  /\ lastOp' = [NoOp EXCEPT !.op = "cleanup", !.sizeBefore = Len(cache),
                            !.evicted = CacheKeysOf(cache) \ CacheKeysOf(cache')]
  /\ plain' = FALSE
  /\ inserted' = <<>>
  /\ useOrder' = Stored(useOrder, cache')
  /\ UNCHANGED <<now, maxSize, ttl, noExpiry>>
  /\ UNCHANGED mwVars

\* the clock of the cache tests (vi.advanceTimersByTime)
AdvanceTime ==
  /\ now < MaxClock
  /\ now' = now + 1
  /\ noExpiry' = (noExpiry /\ AllFresh(cache, now', ttl))
  /\ UNCHANGED <<cache, maxSize, ttl, lastOp, useOrder, inserted, plain>>
  /\ UNCHANGED mwVars

CacheNext ==
  \/ \E k \in TestKeys, r \in TestResults : Set(k, r)
  \/ \E k \in TestKeys : Get(k)
  \/ Clear
  \/ Cleanup
  \/ AdvanceTime

vars == <<now, cacheVars, mwVars>>

CacheSpec == CacheInit /\ [][CacheNext]_vars

\* the same cache with the clock standing still, so that nothing expires,
\* and with enough keys to overflow every capacity
LruNext ==
  \/ \E k \in LruKeys, r \in TestResults : Set(k, r)
  \/ \E k \in LruKeys : Get(k)
  \/ Clear
  \/ Cleanup

LruSpec == CacheInit /\ [][LruNext]_vars

(***************************************************************************)
(* The middleware: construction, requests, callbacks, timer                *)
(***************************************************************************)
\* what config.getUserAgent(ctx) may return: nothing, a browser, a bot
\* with two signatures, and two strings past the length limit that agree on
\* their first 2048 characters
Browser == Str("x", 1)
TwoSigBot == Concat(Str("l", 1), Str("g", 1))
SigAfterLimit == Concat(Str("x", MaxUALength), Str("g", 1))
FillerOnly == Str("x", MaxUALength + 1)

FlowUserAgents == {Undefined, EmptyStr, Browser, TwoSigBot}
TimedUserAgents == {EmptyStr, TwoSigBot, SigAfterLimit, FillerOnly}

PatternOptions ==
  {[customPatterns |-> <<>>, excludePatterns |-> <<>>],
   [customPatterns |-> <<[regexp |-> FALSE, text |-> "m"]>>,
    excludePatterns |-> <<Str("l", 1)>>]}

TTLOptions == {0, 1}

\* the cacheSize options of the request flow: no room, and room for one
FlowCacheSizes == {0, 1}

\* the instants the clock is looked at: the start and the end of every
\* cleanup interval, and one millisecond after each
ClockTimes == {k * CleanupInterval + j : k \in 0..MaxIntervals, j \in 0..1}

MwStart ==
  /\ now = 0
  /\ mwCache = [i \in Instances |-> <<>>]
  /\ nextCleanupAt = [i \in Instances |-> CleanupInterval]
  /\ req = [r \in Requests |-> NewRequest]
  /\ started = 0
  /\ CacheIdle

\* koaIsBot(options) called twice with the same options, but for cache and
\* stateKey: "B" never caches and publishes under "bot".
\* Options for the request flow: any callbacks and pattern set, cache on or
\* off.
FlowInit ==
  /\ \E cbs \in [onDetection : BOOLEAN, onBotDetected : BOOLEAN],
        po \in PatternOptions, ca \in BOOLEAN, size \in FlowCacheSizes :
       config =
         [i \in Instances |->
            [DEFAULT_OPTIONS EXCEPT
               !.customPatterns = po.customPatterns,
               !.excludePatterns = po.excludePatterns,
               !.stateKey = IF i = "A" THEN "isBot" ELSE "bot",
               !.cache = IF i = "A" THEN ca ELSE FALSE,
               !.cacheSize = size, !.cacheTTL = 1,
               !.onDetection = cbs.onDetection,
               !.onBotDetected = cbs.onBotDetected]]
  /\ MwStart

\* Options for the cache at work: any capacity and TTL, cache on or off, no
\* callbacks.
TimedInit ==
  /\ \E size \in 0..MaxCacheSize, t \in TTLOptions, ca \in BOOLEAN :
       config =
         [i \in Instances |->
            [DEFAULT_OPTIONS EXCEPT
               !.stateKey = IF i = "A" THEN "isBot" ELSE "bot",
               !.cache = IF i = "A" THEN ca ELSE FALSE,
               !.cacheSize = size, !.cacheTTL = t]]
  /\ MwStart

\* a lookup that takes whatever entry is stored first
Lookup_IgnoresKey(i, ua) ==
  IF config[i].cache /\ mwCache[i] # <<>> THEN mwCache[i][1].result
  ELSE NoResult

\* a lookup that never finds anything
Lookup_AlwaysMiss(i, ua) == NoResult

\* cache.get(userAgent) when the cache is enabled, else the initial null
Lookup(i, ua) ==
  IF config[i].cache
  THEN CacheGetResult(mwCache[i], ua, now, config[i].cacheTTL)
  ELSE NoResult

\* a handler that stores the result with the whole user agent in it
CacheAfterRequest_StoresRawUserAgent(i, ua) ==
  IF ~config[i].cache THEN mwCache[i]
  ELSE IF Lookup(i, ua) # NoResult
       THEN CacheAfterGet(mwCache[i], ua, now, config[i].cacheTTL)
       ELSE CacheAfterSet(
              CacheAfterGet(mwCache[i], ua, now, config[i].cacheTTL),
              ua, [detectBot(config[i], ua) EXCEPT !.userAgent = ua], now,
              config[i].cacheSize)

\* the Map after the lookup and, on a miss, the store
CacheAfterRequest(i, ua) ==
  IF ~config[i].cache THEN mwCache[i]
  ELSE IF Lookup(i, ua) # NoResult
       THEN CacheAfterGet(mwCache[i], ua, now, config[i].cacheTTL)
       ELSE CacheAfterSet(
              CacheAfterGet(mwCache[i], ua, now, config[i].cacheTTL),
              ua, detectBot(config[i], ua), now, config[i].cacheSize)

\* one cache for the module: every koaIsBot call sees what any of them stores
CachesAfterRequest_Shared(i, ua) ==
  [j \in Instances |-> IF config[j].cache THEN CacheAfterRequest(i, ua)
                       ELSE mwCache[j]]

\* the caches of all koaIsBot calls after a request through call i: cache is
\* a const of that call's closure
CachesAfterRequest(i, ua) ==
  [mwCache EXCEPT ![i] = CacheAfterRequest(i, ua)]

\* what a request did, in order: an event, or a call with its argument
Ev(name) == [ev |-> name, arg |-> NoResult]
Call(name, result) == [ev |-> name, arg |-> result]

\* a handler that leaves out next() for a request that is no bot
FromBotDetected_NoNext(cfg, result, log) ==
  IF result.isBot /\ cfg.onBotDetected
  THEN [pc |-> "onBotDetected", log |-> Append(log, Call("onBotDetected", result))]
  ELSE IF result.isBot THEN [pc |-> "next", log |-> Append(log, Ev("next"))]
  ELSE [pc |-> "done", log |-> log]

\* a handler that calls onBotDetected whatever the result
FromBotDetected_IgnoresIsBot(cfg, result, log) ==
  IF cfg.onBotDetected
  THEN [pc |-> "onBotDetected", log |-> Append(log, Call("onBotDetected", result))]
  ELSE [pc |-> "next", log |-> Append(log, Ev("next"))]

\* the handler from "if (result.isBot && options.onBotDetected)" up to its
\* next await
FromBotDetected(cfg, result, log) ==
  IF result.isBot /\ cfg.onBotDetected
  THEN [pc |-> "onBotDetected", log |-> Append(log, Call("onBotDetected", result))]
  ELSE [pc |-> "next", log |-> Append(log, Ev("next"))]

\* a handler that goes straight to onBotDetected
FromDetection_Skipped(cfg, result, log) == FromBotDetected(cfg, result, log)

\* a handler that calls onDetection only after a fresh classification
FromDetection_OnlyOnMiss(cfg, result, log) ==
  IF cfg.onDetection /\ Ev("detectBot") \in SeqToSet(log)
  THEN [pc |-> "onDetection", log |-> Append(log, Call("onDetection", result))]
  ELSE FromBotDetected(cfg, result, log)

\* the handler from "if (options.onDetection)" up to its next await
FromDetection(cfg, result, log) ==
  IF cfg.onDetection
  THEN [pc |-> "onDetection", log |-> Append(log, Call("onDetection", result))]
  ELSE FromBotDetected(cfg, result, log)

\* a publication that replaces ctx.state by an object with one key
Publish_ReplacesState(state, key, result) ==
  [k \in StateKeys |-> IF k = key THEN result ELSE Unset]

\* ctx.state[config.stateKey] = result
Publish(state, key, result) == [state EXCEPT ![key] = result]

\* a request arrives: the handler runs up to its first await
Handle(r, i, ua) ==
  /\ r = started + 1
  /\ req[r].pc = "new"
  /\ started' = r
  /\ IF Falsy(ua)
     THEN /\ req' = [req EXCEPT ![r] =
                 [pc |-> "next", inst |-> i, ua |-> ua, result |-> NoResult,
                  state |-> Publish(req[r].state, config[i].stateKey,
                                    EmptyUAResult),
                  log |-> <<Ev("publish"), Ev("next")>>, at |-> now,
                  error |-> "none"]]
          /\ UNCHANGED mwCache
     ELSE LET hit == Lookup(i, ua)
              result == IF hit # NoResult THEN hit
                        ELSE detectBot(config[i], ua)
              log == IF hit # NoResult THEN <<Ev("publish")>>
                     ELSE <<Ev("detectBot"), Ev("publish")>>
              go == FromDetection(config[i], result, log)
          IN /\ req' = [req EXCEPT ![r] =
                    [pc |-> go.pc, inst |-> i, ua |-> ua, result |-> result,
                     state |-> Publish(req[r].state, config[i].stateKey,
                                       result),
                     log |-> go.log, at |-> now, error |-> "none"]]
             /\ mwCache' = CachesAfterRequest(i, ua)
  /\ UNCHANGED <<now, config, nextCleanupAt, cacheVars>>

\* the promise of onDetection resolves
OnDetectionReturns(r) ==
  /\ req[r].pc = "onDetection"
  /\ LET go == FromBotDetected(config[req[r].inst], req[r].result,
                               Append(req[r].log, Ev("onDetection.done")))
     IN req' = [req EXCEPT ![r].pc = go.pc, ![r].log = go.log]
  /\ UNCHANGED <<now, config, mwCache, nextCleanupAt, started, cacheVars>>

\* a handler that takes back what it published when onDetection fails
OnDetectionFails_RollsBack(r) ==
  /\ req[r].pc = "onDetection"
  /\ req' = [req EXCEPT ![r].pc = "failed", ![r].error = "onDetection",
                        ![r].state = FreshCtxState,
                        ![r].log = Append(@, Ev("onDetection.fail"))]
  /\ UNCHANGED <<now, config, mwCache, nextCleanupAt, started, cacheVars>>

\* onDetection throws or its promise rejects
OnDetectionFails(r) ==
  /\ req[r].pc = "onDetection"
  /\ req' = [req EXCEPT ![r].pc = "failed", ![r].error = "onDetection",
                        ![r].log = Append(@, Ev("onDetection.fail"))]
  /\ UNCHANGED <<now, config, mwCache, nextCleanupAt, started, cacheVars>>

\* a handler that, once onBotDetected has resolved, waits for something
\* that never comes
OnBotDetectedReturns_Hangs(r) ==
  /\ req[r].pc = "onBotDetected"
  /\ req' = [req EXCEPT ![r].pc = "hung",
               ![r].log = Append(@, Ev("onBotDetected.done"))]
  /\ UNCHANGED <<now, config, mwCache, nextCleanupAt, started, cacheVars>>

\* the promise of onBotDetected resolves
OnBotDetectedReturns(r) ==
  /\ req[r].pc = "onBotDetected"
  /\ req' = [req EXCEPT ![r].pc = "next",
               ![r].log = @ \o <<Ev("onBotDetected.done"), Ev("next")>>]
  /\ UNCHANGED <<now, config, mwCache, nextCleanupAt, started, cacheVars>>

\* a handler that drops the cache entry of a request whose onBotDetected
\* failed
OnBotDetectedFails_DropsEntry(r) ==
  /\ req[r].pc = "onBotDetected"
  /\ req' = [req EXCEPT ![r].pc = "failed", ![r].error = "onBotDetected",
                        ![r].log = Append(@, Ev("onBotDetected.fail"))]
  /\ mwCache' = [mwCache EXCEPT ![req[r].inst] = MapDelete(@, req[r].ua)]
  /\ UNCHANGED <<now, config, nextCleanupAt, started, cacheVars>>

\* onBotDetected throws or its promise rejects
OnBotDetectedFails(r) ==
  /\ req[r].pc = "onBotDetected"
  /\ req' = [req EXCEPT ![r].pc = "failed", ![r].error = "onBotDetected",
                        ![r].log = Append(@, Ev("onBotDetected.fail"))]
  /\ UNCHANGED <<now, config, mwCache, nextCleanupAt, started, cacheVars>>

\* the downstream middleware completes
NextReturns(r) ==
  /\ req[r].pc = "next"
  /\ req' = [req EXCEPT ![r].pc = "done", ![r].log = Append(@, Ev("next.done"))]
  /\ UNCHANGED <<now, config, mwCache, nextCleanupAt, started, cacheVars>>

\* a handler that catches what the downstream middleware throws
NextFails_Swallowed(r) ==
  /\ req[r].pc = "next"
  /\ req' = [req EXCEPT ![r].pc = "done",
                        ![r].log = Append(@, Ev("next.fail"))]
  /\ UNCHANGED <<now, config, mwCache, nextCleanupAt, started, cacheVars>>

\* the downstream middleware fails
NextFails(r) ==
  /\ req[r].pc = "next"
  /\ req' = [req EXCEPT ![r].pc = "failed", ![r].error = "next",
                        ![r].log = Append(@, Ev("next.fail"))]
  /\ UNCHANGED <<now, config, mwCache, nextCleanupAt, started, cacheVars>>

\* a timer that empties the cache
CleanupTimer_Clears(i) ==
  /\ config[i].cache
  /\ now >= nextCleanupAt[i]
  /\ mwCache' = [mwCache EXCEPT ![i] = <<>>]
  /\ nextCleanupAt' = [nextCleanupAt EXCEPT ![i] = @ + CleanupInterval]
  /\ UNCHANGED <<now, config, req, started, cacheVars>>

\* the setInterval callback of a koaIsBot call with cache: cache.cleanup()
CleanupTimer(i) ==
  /\ config[i].cache
  /\ now >= nextCleanupAt[i]
  /\ mwCache' = [mwCache EXCEPT
                   ![i] = CacheAfterCleanup(@, now, config[i].cacheTTL)]
  /\ nextCleanupAt' = [nextCleanupAt EXCEPT ![i] = @ + CleanupInterval]
  /\ UNCHANGED <<now, config, req, started, cacheVars>>

\* time passes
Tick ==
  /\ \E t \in ClockTimes : t > now /\ now' = t
  /\ UNCHANGED <<mwVars, cacheVars>>

\* a client that sends its requests one after the other, as the tests do
HandleInTurn(r, i, ua) ==
  /\ \A q \in Requests : req[q].pc \in {"new", "done", "failed"}
  /\ Handle(r, i, ua)

Next ==
  \/ \E r \in Requests, i \in Instances, ua \in FlowUserAgents : Handle(r, i, ua)
  \/ \E r \in Requests : OnDetectionReturns(r)
  \/ \E r \in Requests : OnDetectionFails(r)
  \/ \E r \in Requests : OnBotDetectedReturns(r)
  \/ \E r \in Requests : OnBotDetectedFails(r)
  \/ \E r \in Requests : NextReturns(r)
  \/ \E r \in Requests : NextFails(r)

\* concurrent requests with callbacks that may fail, the clock standing still
Spec == FlowInit /\ [][Next]_vars

\* the callbacks and next terminate: each awaited promise settles, by
\* resolving or by rejecting
Terminating ==
  \A r \in Requests :
    /\ WF_vars(OnDetectionReturns(r) \/ OnDetectionFails(r))
    /\ WF_vars(OnBotDetectedReturns(r) \/ OnBotDetectedFails(r))
    /\ WF_vars(NextReturns(r) \/ NextFails(r))

\* Options for termination: any callbacks, the default patterns, a cache
\* with no room or room for one in "A" and none in "B".
LiveInit ==
  /\ \E cbs \in [onDetection : BOOLEAN, onBotDetected : BOOLEAN],
        size \in FlowCacheSizes :
       config =
         [i \in Instances |->
            [DEFAULT_OPTIONS EXCEPT
               !.stateKey = IF i = "A" THEN "isBot" ELSE "bot",
               !.cache = (i = "A"),
               !.cacheSize = size, !.cacheTTL = 1,
               !.onDetection = cbs.onDetection,
               !.onBotDetected = cbs.onBotDetected]]
  /\ MwStart

\* concurrent requests when every callback and every next terminates
LiveSpec == LiveInit /\ [][Next]_vars /\ Terminating

TimedNext ==
  \/ \E r \in Requests, ua \in TimedUserAgents : HandleInTurn(r, "A", ua)
  \/ \E r \in Requests : NextReturns(r)
  \/ \E i \in Instances : CleanupTimer(i)
  \/ Tick

\* requests in turn while time passes and the cleanup timer fires
TimedSpec == TimedInit /\ [][TimedNext]_vars

\* user agents for the pattern options: a bot of the library's list, one
\* whose only signature is excluded, one that only a custom pattern matches,
\* in lower and in upper case, and one with the custom signature past the
\* length limit
ListedBot == Str("g", 1)
ExcludedBot == Str("l", 1)
CustomBot == Str("m", 1)
CustomBotUpper == Str("M", 1)
CustomSigAfterLimit == Concat(Str("x", MaxUALength), Str("m", 1))

DetectUserAgents ==
  {Browser, ListedBot, ExcludedBot, CustomBot, CustomBotUpper, TwoSigBot,
   CustomSigAfterLimit}

\* customPatterns and excludePatterns: none, either, both, and an exclusion
\* that resolves to every pattern of the library's list
DetectPatternOptions ==
  PatternOptions \cup
  {[customPatterns |-> <<[regexp |-> FALSE, text |-> "m"]>>,
    excludePatterns |-> <<>>],
   [customPatterns |-> <<>>, excludePatterns |-> <<ExcludedBot>>],
   [customPatterns |-> <<>>, excludePatterns |-> <<TwoSigBot>>]}

\* Options for the detector: any pattern options, cache on or off with the
\* default size and TTL, no callbacks.
DetectInit ==
  /\ \E po \in DetectPatternOptions, ca \in BOOLEAN :
       config =
         [i \in Instances |->
            [DEFAULT_OPTIONS EXCEPT
               !.customPatterns = po.customPatterns,
               !.excludePatterns = po.excludePatterns,
               !.stateKey = IF i = "A" THEN "isBot" ELSE "bot",
               !.cache = IF i = "A" THEN ca ELSE FALSE]]
  /\ MwStart

DetectNext ==
  \/ \E r \in Requests, ua \in DetectUserAgents : HandleInTurn(r, "A", ua)
  \/ \E r \in Requests : NextReturns(r)

\* requests in turn through one middleware, for every pattern option
DetectSpec == DetectInit /\ [][DetectNext]_vars

\* Options for two middlewares with a cache each: the same options but for
\* stateKey.
OwnCacheInit ==
  /\ \E size \in FlowCacheSizes :
       config =
         [i \in Instances |->
            [DEFAULT_OPTIONS EXCEPT
               !.stateKey = IF i = "A" THEN "isBot" ELSE "bot",
               !.cacheSize = size, !.cacheTTL = 1]]
  /\ MwStart

OwnCacheNext ==
  \/ \E r \in Requests, i \in Instances, ua \in FlowUserAgents : Handle(r, i, ua)
  \/ \E r \in Requests : NextReturns(r)

\* concurrent requests through two middlewares that both cache
OwnCacheSpec == OwnCacheInit /\ [][OwnCacheNext]_vars

\* Options for callbacks that fail while time passes: both callbacks, a
\* cache with room for one in "A", any TTL.
RetryInit ==
  /\ \E t \in TTLOptions :
       config =
         [i \in Instances |->
            [DEFAULT_OPTIONS EXCEPT
               !.stateKey = IF i = "A" THEN "isBot" ELSE "bot",
               !.cache = (i = "A"),
               !.cacheSize = 1, !.cacheTTL = t,
               !.onDetection = TRUE, !.onBotDetected = TRUE]]
  /\ MwStart

RetryUserAgents == {Browser, TwoSigBot}

RetryNext ==
  \/ \E r \in Requests, ua \in RetryUserAgents : HandleInTurn(r, "A", ua)
  \/ \E r \in Requests : OnDetectionReturns(r)
  \/ \E r \in Requests : OnDetectionFails(r)
  \/ \E r \in Requests : OnBotDetectedReturns(r)
  \/ \E r \in Requests : OnBotDetectedFails(r)
  \/ \E r \in Requests : NextReturns(r)
  \/ \E i \in Instances : CleanupTimer(i)
  \/ Tick

\* requests in turn with callbacks that may fail, while time passes and the
\* cleanup timer fires
RetrySpec == RetryInit /\ [][RetryNext]_vars

(***************************************************************************)
(* Properties of the cache                                                 *)
(***************************************************************************)
KeySeq(c) == [i \in 1..Len(c) |-> c[i].key]

Suffix(q, n) == SubSeq(q, Len(q) - n + 1, Len(q))

\* C1: the number of stored entries never exceeds maxSize, for every
\* capacity including 0 and 1.
C1_SizeWithinCapacity == Len(cache) <= maxSize

\* C2: with capacity N >= 1, no expiry and no get, after sets of distinct
\* keys the cache holds the last N keys set, in that order; so N+1 sets
\* leave N keys and the one set first is gone, and with N = 1 only the
\* key set last is kept.
C2_EvictsFirstInserted ==
  (plain /\ maxSize >= 1) =>
    KeySeq(cache) = Suffix(inserted, Min(maxSize, Len(inserted)))

C2_Witness ==
  /\ plain
  /\ maxSize >= 2
  /\ Len(inserted) = maxSize + 1
  /\ inserted[1] \notin CacheKeysOf(cache)

\* C3: without expiry, the entry an evicting set removes is the one whose
\* last successful get or set is oldest.
C3_EvictsLeastRecentlyUsed ==
  (lastOp.op = "set" /\ lastOp.age = -1 /\ lastOp.evicted # {} /\ noExpiry) =>
    lastOp.evicted = lastOp.lruBefore

\* C4: get never returns the result of an entry older than ttl; for such
\* an entry it returns null and removes the entry, so size drops by one.
C4_GetNeverReturnsExpired ==
  lastOp.op = "get" =>
    /\ lastOp.ret # NoResult => (lastOp.age >= 0 /\ lastOp.age <= ttl)
    /\ lastOp.age > ttl =>
         /\ lastOp.ret = NoResult
         /\ lastOp.key \notin CacheKeysOf(cache)
         /\ Len(cache) = lastOp.sizeBefore - 1

C4_Witness ==
  /\ lastOp.op = "get"
  /\ lastOp.age > ttl
  /\ lastOp.sizeBefore >= 2
  /\ lastOp.evicted = {lastOp.key}

(***************************************************************************)
(* Properties of the middleware                                            *)
(***************************************************************************)
Handled(r) == req[r].pc # "new"

Settled(r) == req[r].pc \in {"done", "failed"}

Cfg(r) == config[req[r].inst]

\* ctx.state[config.stateKey]
Published(r) == req[r].state[Cfg(r).stateKey]

Count(log, name) == Cardinality({i \in 1..Len(log) : log[i].ev = name})

Classified(r) == Count(req[r].log, "detectBot") > 0

\* what the handler publishes when cache is null
UncachedResult(cfg, ua) ==
  IF Falsy(ua) THEN EmptyUAResult ELSE detectBot(cfg, ua)

\* C5: with the cache enabled, every request is published the result it is
\* published with the cache disabled, whatever was handled before, however
\* the clock advanced, for every capacity and TTL.
C5_CacheDoesNotChangeResults ==
  \A r \in Requests :
    (Handled(r) /\ Cfg(r).cache) =>
      Published(r) = UncachedResult([Cfg(r) EXCEPT !.cache = FALSE], req[r].ua)

\* a result served from the cache after the clock has advanced
C5_Witness ==
  \E q, r \in Requests :
    /\ q < r /\ Handled(q) /\ Handled(r)
    /\ Cfg(r).cache
    /\ req[q].ua = req[r].ua /\ ~Falsy(req[r].ua)
    /\ Classified(q) /\ ~Classified(r)
    /\ req[r].at > req[q].at
    /\ req[r].result.isBot

Successive(q, r) ==
  /\ r = q + 1
  /\ Handled(q) /\ Handled(r)
  /\ req[q].inst = req[r].inst
  /\ Cfg(r).cache
  /\ req[q].ua = req[r].ua
  /\ ~Falsy(req[r].ua)

\* when the instance of request r last ran the classifier on r's user agent,
\* up to request q
LastClassifiedAt(q, r) ==
  LET past == {p \in 1..q : /\ req[p].inst = req[r].inst
                            /\ req[p].ua = req[r].ua
                            /\ Classified(p)}
  IN IF past = {} THEN -1
     ELSE req[CHOOSE p \in past : \A o \in past : o <= p].at

\* C6 as stated: a user agent handled twice by one instance with cache is
\* published the same result twice and is not classified the second time.
C6_SecondHandlingSkipsClassifier ==
  \A q, r \in Requests :
    Successive(q, r) => (Published(q) = Published(r) /\ ~Classified(r))

\* C6: a user agent handled twice in succession by one instance with cache
\* is published the same result twice; it is not classified the second time
\* when no more than cacheTTL has passed since it was last classified.
C6_SecondHandlingWithinTtl ==
  \A q, r \in Requests :
    Successive(q, r) =>
      /\ Published(q) = Published(r)
      /\ (req[r].at - LastClassifiedAt(q, r) <= Cfg(r).cacheTTL) => ~Classified(r)
      /\ (req[r].at - LastClassifiedAt(q, r) > Cfg(r).cacheTTL) => Classified(r)

C6_Witness ==
  \E q, r \in Requests :
    /\ Successive(q, r)
    /\ req[r].at > req[q].at
    /\ req[r].at - LastClassifiedAt(q, r) <= Cfg(r).cacheTTL
    /\ ~Classified(r)

\* C7 as stated: every request that has been handled to its end has
\* invoked next exactly once.
C7_NextExactlyOnce ==
  \A r \in Requests :
    /\ Count(req[r].log, "next") <= 1
    /\ Settled(r) => Count(req[r].log, "next") = 1

\* C7: next is never invoked twice; it has been invoked once when the
\* handler waits for it, completes, or fails because next failed; it is not
\* invoked when onDetection or onBotDetected fails.
C7_NextOnceUnlessCallbackFails ==
  \A r \in Requests :
    /\ Count(req[r].log, "next") <= 1
    /\ (req[r].pc \in {"next", "done"} \/ req[r].error = "next")
         => Count(req[r].log, "next") = 1
    /\ (req[r].pc \in {"new", "onDetection", "onBotDetected"}
        \/ req[r].error \in {"onDetection", "onBotDetected"})
         => Count(req[r].log, "next") = 0

C7_Witness ==
  \E q, r \in Requests :
    /\ req[q].pc = "done"
    /\ Count(req[q].log, "onBotDetected.done") = 1
    /\ Falsy(req[r].ua) /\ req[r].pc = "done"

IsPrefix(a, b) == Len(a) <= Len(b) /\ a = SubSeq(b, 1, Len(a))

EventNames(log) == [i \in 1..Len(log) |-> log[i].ev]

\* the events of a bot's request with both callbacks, in order
BotEvents ==
  <<"publish", "onDetection", "onDetection.done",
    "onBotDetected", "onBotDetected.done", "next">>

\* the log without the classification at its start and without the
\* outcome (a failure, the return of next) at its end
Core(log) ==
  LET n == EventNames(log)
      t == IF n # <<>> /\ n[1] = "detectBot" THEN Tail(n) ELSE n
  IN IF t # <<>> /\ t[Len(t)] \in {"onDetection.fail", "onBotDetected.fail",
                                   "next.done", "next.fail"}
     THEN SubSeq(t, 1, Len(t) - 1) ELSE t

BotDetectedArgs(r) ==
  {req[r].log[i].arg : i \in {j \in 1..Len(req[r].log) :
                                req[r].log[j].ev = "onBotDetected"}}

\* C9 as stated: with onBotDetected configured, a request with a user agent
\* that has been handled to its end has called onBotDetected once, with
\* the published result, if the result is a bot, and not at all if not.
C9_BotDetectedIffBot ==
  \A r \in Requests :
    (Settled(r) /\ ~Falsy(req[r].ua) /\ Cfg(r).onBotDetected) =>
      /\ Count(req[r].log, "onBotDetected") = (IF req[r].result.isBot THEN 1 ELSE 0)
      /\ BotDetectedArgs(r) \subseteq {Published(r)}

\* C9: with onBotDetected configured, onBotDetected is called at most once,
\* with the published result and only for a bot; a request with a user
\* agent that has been handled to its end has called it if and only if the
\* result is a bot and onDetection did not fail.
C9_BotDetectedIffBotAndDetectionPassed ==
  \A r \in Requests :
    (Handled(r) /\ ~Falsy(req[r].ua) /\ Cfg(r).onBotDetected) =>
      /\ Count(req[r].log, "onBotDetected") <= 1
      /\ BotDetectedArgs(r) \subseteq {Published(r)}
      /\ Count(req[r].log, "onBotDetected") = 1 => req[r].result.isBot
      /\ Settled(r) =>
           (Count(req[r].log, "onBotDetected") = 1
              <=> (req[r].result.isBot /\ req[r].error # "onDetection"))

C9_Witness ==
  \E q, r \in Requests :
    /\ Settled(q) /\ Settled(r)
    /\ Cfg(r).onBotDetected
    /\ req[q].result # NoResult /\ req[q].result.isBot
    /\ Count(req[q].log, "onBotDetected") = 1
    /\ req[r].result # NoResult /\ ~req[r].result.isBot
    /\ Count(req[r].log, "onBotDetected") = 0

RECURSIVE SumOver(_, _)
SumOver(f, S) ==
  IF S = {} THEN 0
  ELSE LET x == CHOOSE y \in S : TRUE IN f[x] + SumOver(f, S \ {x})

\* C10: with onDetection configured, every request with a user agent has
\* called onDetection exactly once as soon as it is handled, bot or not,
\* cache hit or not, and a request without user agent never; so k requests
\* with a user agent make k calls.
C10_DetectionOncePerRequest ==
  /\ \A r \in Requests :
       Handled(r) =>
         Count(req[r].log, "onDetection")
           = (IF ~Falsy(req[r].ua) /\ Cfg(r).onDetection THEN 1 ELSE 0)
  /\ (\A i \in Instances : config[i].onDetection) =>
       SumOver([r \in Requests |-> Count(req[r].log, "onDetection")], Requests)
         = Cardinality({r \in Requests : Handled(r) /\ ~Falsy(req[r].ua)})

C10_Witness ==
  \E q, r \in Requests :
    /\ q < r /\ Handled(q) /\ Handled(r)
    /\ Cfg(r).onDetection /\ Cfg(r).cache
    /\ req[q].inst = req[r].inst
    /\ req[q].ua = req[r].ua /\ ~Falsy(req[r].ua)
    /\ Classified(q) /\ ~Classified(r)
    /\ Count(req[q].log, "onDetection") = 1
    /\ Count(req[r].log, "onDetection") = 1

(***************************************************************************)
(* Requests without user agent                                             *)
(***************************************************************************)
\* the user agents that count as none: a missing header or a getUserAgent
\* that returns undefined, and the empty string
NoUserAgent == {Undefined, EmptyStr}

\* C11: a request whose user agent is empty or absent is published exactly
\* {isBot: false, botName: null, botPatterns: [], userAgent: ""} under
\* stateKey, and neither onDetection nor onBotDetected is called for it.
C11_EmptyUserAgentResult ==
  \A r \in Requests :
    (Handled(r) /\ req[r].ua \in NoUserAgent) =>
      /\ Published(r) = [isBot |-> FALSE, botName |-> Null,
                         botPatterns |-> <<>>, userAgent |-> EmptyStr]
      /\ Count(req[r].log, "onDetection") = 0
      /\ Count(req[r].log, "onBotDetected") = 0

\* both kinds of missing user agent handled to the end by a middleware that
\* has both callbacks
C11_Witness ==
  \E q, r \in Requests :
    /\ req[q].pc = "done" /\ req[r].pc = "done"
    /\ req[q].ua = Undefined /\ req[r].ua = EmptyStr
    /\ Cfg(q).onDetection /\ Cfg(q).onBotDetected
    /\ Cfg(r).onDetection /\ Cfg(r).onBotDetected

\* C12: the step that handles a request whose user agent is empty leaves
\* every cache as it was: same entries, same timestamps, same order.
C12_EmptyUserAgentLeavesCache ==
  [][(started' = started + 1 /\ req'[started'].ua \in NoUserAgent)
       => mwCache' = mwCache]_vars

\* a request without user agent handled while the cache holds an entry that
\* a get would remove, being older than cacheTTL
C12_Witness ==
  \E q, r \in Requests :
    /\ q < r /\ Handled(r)
    /\ req[r].ua \in NoUserAgent
    /\ Cfg(r).cache
    /\ mwCache[req[r].inst] # <<>>
    /\ req[r].at - mwCache[req[r].inst][1].timestamp > Cfg(r).cacheTTL

(***************************************************************************)
(* The length limit                                                        *)
(***************************************************************************)
\* the first 2048 characters of what getUserAgent returned
FirstChars(ua) == IF ua \in NoUserAgent THEN EmptyStr ELSE Slice(ua, MaxUALength)

\* C13: the userAgent field of every published result, classified afresh or
\* taken from the cache, is at most 2048 characters long and is the first
\* 2048 characters of the request's user agent.
C13_PublishedUserAgentTruncated ==
  \A r \in Requests :
    Handled(r) =>
      /\ StrLen(Published(r).userAgent) <= MaxUALength
      /\ Published(r).userAgent = FirstChars(req[r].ua)

\* a user agent longer than the limit served from the cache
C13_Witness ==
  \E q, r \in Requests :
    /\ q < r /\ Handled(q) /\ Handled(r)
    /\ req[q].ua = req[r].ua
    /\ StrLen(req[r].ua) > MaxUALength
    /\ Classified(q) /\ ~Classified(r)
    /\ StrLen(Published(r).userAgent) = MaxUALength

\* C14 as stated: every key the middleware hands to its cache is the user
\* agent cut to 2048 characters: no key in a cache is longer, and no two
\* keys of one cache agree on their first 2048 characters.
C14_CacheKeysSanitized ==
  \A i \in Instances :
    /\ \A k \in CacheKeysOf(mwCache[i]) : StrLen(k) <= MaxUALength
    /\ \A j, k \in CacheKeysOf(mwCache[i]) :
         Slice(j, MaxUALength) = Slice(k, MaxUALength) => j = k

(***************************************************************************)
(* The shape of a result                                                   *)
(***************************************************************************)
\* C15 as stated: in every published result isBot is true exactly when
\* botPatterns is not empty, botName is not null exactly when isBot is
\* true, and a botName that is not null is the first of botPatterns; with
\* the library's pattern list and with a customized one.
C15_ResultConsistent ==
  \A r \in Requests :
    Handled(r) =>
      /\ Published(r).isBot <=> (Published(r).botPatterns # <<>>)
      /\ (Published(r).botName # Null) <=> Published(r).isBot
      /\ (Published(r).botName # Null) =>
           /\ Published(r).botPatterns # <<>>
           /\ Published(r).botName = Published(r).botPatterns[1]

(***************************************************************************)
(* More properties of the cache                                            *)
(***************************************************************************)
\* the entry stored under key k
EntryOf(c, k) == c[IndexOf(c, k)]

\* C16 as stated: a set of a key already stored replaces its result, stamps
\* it with the current time and makes it the most recently used entry, the
\* last one that sets of new keys will evict.
C16_SetOfStoredKeyRefreshes ==
  (lastOp.op = "set" /\ lastOp.age >= 0) =>
    /\ lastOp.key \in CacheKeysOf(cache)
    /\ EntryOf(cache, lastOp.key).result = lastOp.ret
    /\ EntryOf(cache, lastOp.key).timestamp = now
    /\ cache[Len(cache)].key = lastOp.key

\* C17 as stated: a set of a key already stored into a cache that holds
\* maxSize entries evicts nothing: the keys and the size stay as they were.
C17_SetOfStoredKeyEvictsNothing ==
  (lastOp.op = "set" /\ lastOp.age >= 0 /\ lastOp.sizeBefore = maxSize) =>
    /\ lastOp.evicted = {}
    /\ Len(cache) = lastOp.sizeBefore

\* C18 as stated: a cache built with maxSize 0 never holds an entry and
\* every get on it returns null.
C18_ZeroCapacityHoldsNothing ==
  maxSize = 0 =>
    /\ Len(cache) = 0
    /\ lastOp.op = "get" => lastOp.ret = NoResult

\* C19: with maxSize >= 1 a set always stores: whatever the cache held,
\* the key is stored afterwards with the result given; and a get of a stored
\* key whose entry is no older than ttl, the age ttl included, returns the
\* stored result and keeps the entry.
C19_WriteNeverRejected ==
  /\ (lastOp.op = "set" /\ maxSize >= 1) =>
       /\ lastOp.key \in CacheKeysOf(cache)
       /\ EntryOf(cache, lastOp.key).result = lastOp.ret
  /\ (lastOp.op = "get" /\ lastOp.age >= 0 /\ lastOp.age <= ttl) =>
       /\ lastOp.ret # NoResult
       /\ lastOp.key \in CacheKeysOf(cache)
       /\ EntryOf(cache, lastOp.key).result = lastOp.ret

\* a get, on a full cache, of an entry exactly ttl old, which returns the
\* result stored
C19_Witness ==
  /\ lastOp.op = "get"
  /\ maxSize >= 1 /\ lastOp.sizeBefore = maxSize
  /\ ttl >= 1 /\ lastOp.age = ttl
  /\ lastOp.ret # NoResult

\* C20: a get leaves the timestamp of every entry it keeps as it was, so
\* the age an entry is judged by runs from its last set whatever gets hit
\* it in between.
C20_GetKeepsTimestamp ==
  [][(\E k \in TestKeys : Get(k)) =>
       \A i \in 1..Len(cache') :
         /\ cache'[i].key \in CacheKeysOf(cache)
         /\ cache'[i].timestamp = EntryOf(cache, cache'[i].key).timestamp]_vars

\* a get that returned an entry set before the clock advanced, the entry
\* still carrying the time of its set
C20_Witness ==
  /\ lastOp.op = "get"
  /\ lastOp.ret # NoResult
  /\ lastOp.age >= 1
  /\ lastOp.key \in CacheKeysOf(cache)
  /\ EntryOf(cache, lastOp.key).timestamp < now

(***************************************************************************)
(* cleanup and clear                                                       *)
(***************************************************************************)
EntriesOf(c) == {c[i] : i \in 1..Len(c)}

\* C21: cleanup removes exactly the entries older than ttl at the time of
\* the call: afterwards none of them is left, and every entry no older than
\* ttl is still stored, with its result and timestamp.
C21_CleanupRemovesExpiredOnly ==
  [][Cleanup =>
       /\ Len(cache') = Cardinality(EntriesOf(cache'))
       /\ EntriesOf(cache') = {e \in EntriesOf(cache) : now - e.timestamp <= ttl}]_vars

\* a cleanup that removed one entry and kept another
C21_Witness ==
  /\ lastOp.op = "cleanup"
  /\ lastOp.evicted # {}
  /\ cache # <<>>
  /\ Len(cache) < lastOp.sizeBefore

\* C22: after clear the cache is empty whatever it held, and a get of any
\* key returns null as long as the key has not been set again.
C22_ClearEmpties ==
  /\ lastOp.op = "clear" =>
       /\ Len(cache) = 0
       /\ \A k \in TestKeys : CacheGetResult(cache, k, now, ttl) = NoResult
  /\ (lastOp.op = "get" /\ lastOp.sizeBefore = 0) => lastOp.ret = NoResult

\* a clear of a cache that held several entries
C22_Witness ==
  /\ lastOp.op = "clear"
  /\ lastOp.sizeBefore >= 2
  /\ Len(cache) = 0

(***************************************************************************)
(* Failures and ctx.state                                                  *)
(***************************************************************************)
\* the handler of request r rejected with the failure of step name
RejectedWith(r, name) == req[r].pc = "failed" /\ req[r].error = name

\* C23: when onDetection or onBotDetected fails, the handler rejects with
\* that failure, and the result published before the callbacks ran is still
\* under ctx.state[stateKey], as it was.
C23_CallbackFailurePropagates ==
  \A r \in Requests :
    /\ Count(req[r].log, "onDetection.fail") > 0 =>
         /\ RejectedWith(r, "onDetection")
         /\ req[r].result # NoResult /\ Published(r) = req[r].result
    /\ Count(req[r].log, "onBotDetected.fail") > 0 =>
         /\ RejectedWith(r, "onBotDetected")
         /\ req[r].result # NoResult /\ Published(r) = req[r].result

\* one request that onDetection failed and one that onBotDetected failed
C23_Witness ==
  \E q, r \in Requests :
    /\ RejectedWith(q, "onDetection") /\ Published(q) = req[q].result
    /\ RejectedWith(r, "onBotDetected") /\ Published(r).isBot

\* C24: when next fails, the handler rejects with that failure, for a
\* request without user agent and for one with a user agent alike.
C24_NextFailurePropagates ==
  \A r \in Requests :
    /\ Count(req[r].log, "next.fail") > 0 => RejectedWith(r, "next")
    /\ req[r].pc = "done" => Count(req[r].log, "next.done") = 1

\* next failed for a request without user agent and for a bot
C24_Witness ==
  \E q, r \in Requests :
    /\ req[q].ua \in NoUserAgent /\ RejectedWith(q, "next")
    /\ req[r].ua \notin NoUserAgent /\ RejectedWith(r, "next")
    /\ Published(r).isBot

\* C25: a handled request has written the key stateKey of ctx.state and no
\* other: every other key holds what it held when the request arrived.
C25_OnlyStateKeyWritten ==
  \A r \in Requests :
    Handled(r) =>
      /\ Published(r) # Unset
      /\ \A k \in StateKeys \ {Cfg(r).stateKey} :
           req[r].state[k] = (IF k = "user" THEN [id |-> 1] ELSE Unset)

\* requests published under "isBot" and under a custom stateKey, next to
\* the data of another middleware
C25_Witness ==
  \E q, r \in Requests :
    /\ Handled(q) /\ Handled(r)
    /\ Cfg(q).stateKey = "isBot" /\ Cfg(r).stateKey = "bot"
    /\ req[r].state["bot"] = req[r].result /\ req[r].result # NoResult
    /\ req[r].state["isBot"] = Unset
    /\ req[r].state["user"] = [id |-> 1]
    /\ req[q].state["user"] = [id |-> 1]

(***************************************************************************)
(* Custom and excluded patterns                                            *)
(***************************************************************************)
\* the patterns of the library's list that match one of excludePatterns
Resolved(cfg) ==
  {p \in SeqToSet(list) :
     \E i \in 1..Len(cfg.excludePatterns) :
       AllMatches(cfg.excludePatterns[i], {p}) # <<>>}

\* the library's list with the custom patterns, less the resolved exclusions
EffectiveSet(cfg) ==
  (SeqToSet(list) \cup SeqToSet(customStrings(cfg))) \ Resolved(cfg)

\* new RegExp(S.join('|'), 'i').test(s): the empty expression matches
\* every string
MatchesAny(s, S) == IF S = {} THEN TRUE ELSE AllMatches(s, S) # <<>>

WithUserAgent(r) == Handled(r) /\ req[r].ua \notin NoUserAgent

\* C26: with customPatterns or excludePatterns set, the patterns used for
\* matching are the library's list and the custom patterns, less the
\* patterns the exclusions resolve to, and every request of the middleware
\* is classified by that one set.
C26_EffectivePatternSet ==
  \A r \in Requests :
    (WithUserAgent(r) /\ Customized(Cfg(r))) =>
      /\ SeqToSet(patterns(Cfg(r))) = EffectiveSet(Cfg(r))
      /\ Published(r).isBot
           <=> MatchesAny(FirstChars(req[r].ua), EffectiveSet(Cfg(r)))

\* two requests of a middleware with custom and excluded patterns: one that
\* only the custom pattern makes a bot, one that the exclusion makes none
C26_Witness ==
  \E q, r \in Requests :
    /\ WithUserAgent(q) /\ WithUserAgent(r)
    /\ Len(Cfg(r).customPatterns) > 0 /\ Len(Cfg(r).excludePatterns) > 0
    /\ req[q].ua = CustomBot /\ Published(q).isBot
    /\ req[r].ua = ExcludedBot /\ ~Published(r).isBot

CustomOnly(cfg) == Len(cfg.customPatterns) > 0 /\ Len(cfg.excludePatterns) = 0

\* C27 as stated: with customPatterns only, a user agent that a custom
\* pattern matches, whatever the case, is a bot, and so is every user agent
\* that is a bot without the custom patterns.
C27_CustomPatternsOnlyAdd ==
  \A r \in Requests :
    (WithUserAgent(r) /\ CustomOnly(Cfg(r))) =>
      /\ AllMatches(req[r].ua, SeqToSet(customStrings(Cfg(r)))) # <<>>
           => Published(r).isBot
      /\ detectBot([Cfg(r) EXCEPT !.customPatterns = <<>>], req[r].ua).isBot
           => Published(r).isBot

\* C27: with customPatterns only, a user agent whose first 2048 characters
\* a custom pattern matches, whatever the case, is a bot, and so is every
\* user agent that is a bot without the custom patterns.
C27_CustomPatternsAddWithinLimit ==
  \A r \in Requests :
    (WithUserAgent(r) /\ CustomOnly(Cfg(r))) =>
      /\ AllMatches(FirstChars(req[r].ua), SeqToSet(customStrings(Cfg(r)))) # <<>>
           => Published(r).isBot
      /\ detectBot([Cfg(r) EXCEPT !.customPatterns = <<>>], req[r].ua).isBot
           => Published(r).isBot

\* the custom signature in upper case, and a bot of the library's list,
\* both bots for a middleware with a custom pattern
C27_Witness ==
  \E q, r \in Requests :
    /\ WithUserAgent(q) /\ WithUserAgent(r)
    /\ CustomOnly(Cfg(r))
    /\ req[q].ua = CustomBotUpper /\ Published(q).isBot
    /\ req[r].ua = ListedBot /\ Published(r).isBot

\* C28 as stated: with excludePatterns set, a user agent that some pattern
\* matches and whose matching patterns are all among the resolved
\* exclusions is no bot, while it is a bot without the exclusions.
C28_ExcludedSignaturesNotBots ==
  \A r \in Requests :
    (WithUserAgent(r) /\ Len(Cfg(r).excludePatterns) > 0) =>
      LET matching ==
            {p \in SeqToSet(list) \cup SeqToSet(customStrings(Cfg(r))) :
               AllMatches(FirstChars(req[r].ua), {p}) # <<>>}
      IN (matching # {} /\ matching \subseteq Resolved(Cfg(r))) =>
           /\ ~Published(r).isBot
           /\ detectBot([Cfg(r) EXCEPT !.excludePatterns = <<>>], req[r].ua).isBot

(***************************************************************************)
(* Truncation and concurrency                                              *)
(***************************************************************************)
\* C29: requests of one middleware whose user agents agree on their first
\* 2048 characters are published the same result, and a request is a bot
\* only if its first 2048 characters are classified as one: a signature
\* past character 2048 counts for nothing.
C29_DependsOnFirstCharsOnly ==
  /\ \A q, r \in Requests :
       (Handled(q) /\ Handled(r) /\ req[q].inst = req[r].inst
          /\ FirstChars(req[q].ua) = FirstChars(req[r].ua))
         => Published(q) = Published(r)
  /\ \A r \in Requests :
       (WithUserAgent(r) /\ Published(r).isBot)
         => AllMatches(FirstChars(req[r].ua), SeqToSet(patterns(Cfg(r)))) # <<>>

\* two user agents of 2049 characters that differ in the last one, a bot
\* signature, both published the same result, which is no bot
C29_Witness ==
  \E q, r \in Requests :
    /\ Handled(q) /\ Handled(r)
    /\ req[q].ua = FillerOnly /\ req[r].ua = SigAfterLimit
    /\ Cfg(r).cache
    /\ Published(q) = Published(r)
    /\ ~Published(r).isBot

\* C30 as stated: however requests in flight through one middleware
\* interleave, every entry of its cache holds the classification of its
\* key, the cache holds no more than cacheSize entries, and every request
\* is published the classification of its own user agent.
C30_ConcurrentRequestsKeepCacheSound ==
  /\ \A i \in Instances :
       /\ \A n \in 1..Len(mwCache[i]) :
            mwCache[i][n].result = detectBot(config[i], mwCache[i][n].key)
       /\ Len(mwCache[i]) <= config[i].cacheSize
  /\ \A r \in Requests :
       Handled(r) => Published(r) = UncachedResult(Cfg(r), req[r].ua)

(***************************************************************************)
(* The cleanup timer                                                       *)
(***************************************************************************)
\* request r was served from the cache, by an entry no older than cacheTTL
ServedFresh(r) ==
  \E q \in 1..(r - 1) :
    /\ req[q].inst = req[r].inst /\ req[q].ua = req[r].ua /\ Classified(q)
    /\ req[r].at - req[q].at <= Cfg(r).cacheTTL

\* C31: whenever the cleanup timer fires between the steps of the
\* requests, every request is published the classification of its own user
\* agent, a request served from the cache is served by an entry no older
\* than cacheTTL, and the timer removes no entry whose age is at most
\* cacheTTL.
C31_TimerRacesBenignly ==
  /\ [](\A r \in Requests :
          Handled(r) =>
            /\ Published(r) = UncachedResult(Cfg(r), req[r].ua)
            /\ (WithUserAgent(r) /\ ~Classified(r)) => ServedFresh(r))
  /\ [][\A i \in Instances :
          CleanupTimer(i) =>
            \A e \in EntriesOf(mwCache[i]) :
              now - e.timestamp <= config[i].cacheTTL
                => e \in EntriesOf(mwCache'[i])]_vars

\* the timer has fired while a request was waiting for next, and removed
\* the entry that request had stored
C31_Witness ==
  \E r \in Requests :
    /\ WithUserAgent(r) /\ Classified(r) /\ Cfg(r).cache
    /\ req[r].pc = "next"
    /\ nextCleanupAt[req[r].inst] > CleanupInterval
    /\ mwCache[req[r].inst] = <<>>

C33_OwnCachePerInstance ==
  [][started' = started + 1 =>
       \A j \in Instances \ {req'[started'].inst} : mwCache'[j] = mwCache[j]]_vars

\* the same user agent through both middlewares: each classified it and
\* each stored it in its own cache
C33_Witness ==
  \E q, r \in Requests :
    /\ WithUserAgent(q) /\ WithUserAgent(r)
    /\ req[q].inst = "A" /\ req[r].inst = "B"
    /\ req[q].ua = req[r].ua
    /\ Classified(q) /\ Classified(r)
    /\ req[q].ua \in CacheKeysOf(mwCache["A"])
    /\ req[r].ua \in CacheKeysOf(mwCache["B"])

(***************************************************************************)
(* Lookup and store in one stretch                                         *)
(***************************************************************************)
\* the key is stored in the cache of middleware i and no older than cacheTTL
StoredFresh(i, ua) ==
  /\ ua \in CacheKeysOf(mwCache[i])
  /\ now - EntryOf(mwCache[i], ua).timestamp <= config[i].cacheTTL

\* C34: a request with a user agent through a caching middleware runs the
\* classifier, and stores the result, exactly when its user agent is not
\* stored at that moment or is stored too old; so the store is for a key
\* that is absent once the lookup is done, and while an entry stays in the
\* cache its user agent is not classified again, whatever requests are in
\* flight.
C34_StoreOnlyForAbsentKey ==
  [][started' = started + 1 =>
       LET r == started'
           i == req'[r].inst
           ua == req'[r].ua
       IN (ua \notin NoUserAgent /\ config[i].cache) =>
            /\ Count(req'[r].log, "detectBot") = (IF StoredFresh(i, ua) THEN 0 ELSE 1)
            /\ StoredFresh(i, ua) =>
                 CacheKeysOf(mwCache'[i]) = CacheKeysOf(mwCache[i])
            /\ ~StoredFresh(i, ua) =>
                 /\ ua \notin CacheKeysOf(CacheAfterGet(mwCache[i], ua, now,
                                                        config[i].cacheTTL))
                 /\ ua \in CacheKeysOf(mwCache'[i])]_vars

\* two requests for one user agent in flight at once, at onDetection: the
\* first was classified, the second was served from the cache
C34_Witness ==
  \E q, r \in Requests :
    /\ q < r
    /\ req[q].pc = "onDetection" /\ req[r].pc = "onDetection"
    /\ req[q].inst = req[r].inst /\ req[q].ua = req[r].ua
    /\ Classified(q) /\ ~Classified(r)
    /\ Len(mwCache[req[r].inst]) = 1

(***************************************************************************)
(* What the cache holds                                                    *)
(***************************************************************************)
\* C35: every entry of a middleware's cache holds, under its key k, the
\* result detectBot gives for k, whose userAgent is the first 2048
\* characters of k; so the result a request is served from the cache has
\* the first 2048 characters of that request's user agent as userAgent.
C35_EntriesHoldResultOfKey ==
  /\ \A i \in Instances :
       \A e \in EntriesOf(mwCache[i]) :
         /\ e.result = detectBot(config[i], e.key)
         /\ e.result.userAgent = FirstChars(e.key)
  /\ \A r \in Requests :
       (WithUserAgent(r) /\ Cfg(r).cache /\ ~Classified(r)) =>
         Published(r).userAgent = FirstChars(req[r].ua)

\* a cache that holds the entry of a user agent longer than the limit, and
\* a later request for that user agent served from it
C35_Witness ==
  \E q, r \in Requests :
    /\ q < r /\ WithUserAgent(q) /\ WithUserAgent(r)
    /\ StrLen(req[q].ua) > MaxUALength
    /\ req[q].ua \in CacheKeysOf(mwCache[req[q].inst])
    /\ req[r].ua = req[q].ua /\ ~Classified(r)
    /\ req[r].at > req[q].at

(***************************************************************************)
(* Eviction and age                                                        *)
(***************************************************************************)
\* C36 as stated: whatever the ages of the entries, a set that evicts
\* removes one entry, the one whose last set or successful get is oldest,
\* and leaves every other entry stored, expired or not.
C36_EvictsHeadWhateverAges ==
  (lastOp.op = "set" /\ lastOp.evicted # {}) =>
    /\ lastOp.evicted = lastOp.lruBefore
    /\ Len(cache) >= lastOp.sizeBefore - 1

(***************************************************************************)
(* What get leaves alone                                                   *)
(***************************************************************************)
\* the entries under keys other than k, in their order
Others(c, k) == SelectSeq(c, LAMBDA e : e.key # k)

\* C37: get(k) leaves the entries of all other keys as they were, results,
\* timestamps and order; for a k that is not stored the cache stays as it
\* is, for a k older than ttl only the entry of k goes, and for a k no
\* older than ttl the entry of k is kept as it is and moves to the end.
C37_GetLeavesOtherKeys ==
  [][\A k \in TestKeys :
       Get(k) =>
         /\ Others(cache', k) = Others(cache, k)
         /\ k \notin CacheKeysOf(cache) => cache' = cache
         /\ (k \in CacheKeysOf(cache) /\ now - EntryOf(cache, k).timestamp > ttl)
              => cache' = Others(cache, k)
         /\ (k \in CacheKeysOf(cache) /\ now - EntryOf(cache, k).timestamp <= ttl)
              => cache' = Append(Others(cache, k), EntryOf(cache, k))]_vars

\* a get that returned the entry of its key and moved it to the end, past
\* an entry older than ttl that is still stored
C37_Witness ==
  /\ lastOp.op = "get"
  /\ lastOp.ret # NoResult
  /\ Len(cache) >= 2
  /\ cache[Len(cache)].key = lastOp.key
  /\ cache[Len(cache)].timestamp = now
  /\ \E n \in 1..(Len(cache) - 1) : now - cache[n].timestamp > ttl

(***************************************************************************)
(* A failed callback and the cache                                         *)
(***************************************************************************)
FailedInCallback(q) ==
  RejectedWith(q, "onDetection") \/ RejectedWith(q, "onBotDetected")

\* what a failed callback leaves out
SkipsRemainingSteps(q) ==
  /\ RejectedWith(q, "onDetection") =>
       /\ Count(req[q].log, "onBotDetected") = 0
       /\ Count(req[q].log, "next") = 0
  /\ RejectedWith(q, "onBotDetected") => Count(req[q].log, "next") = 0

\* C38 as stated: a request whose onDetection failed has called neither
\* onBotDetected nor next, one whose onBotDetected failed has not called
\* next; and the request that comes next through the same middleware for
\* the same user agent is served from the cache.
C38_FailedCallbackKeepsEntry ==
  \A q \in Requests :
    /\ SkipsRemainingSteps(q)
    /\ FailedInCallback(q) =>
         \A r \in Requests :
           Successive(q, r) => (~Classified(r) /\ Published(r) = Published(q))

\* C38: a request whose onDetection failed has called neither
\* onBotDetected nor next, one whose onBotDetected failed has not called
\* next; the failure takes nothing out of the cache, and the request that
\* comes next through the same middleware for the same user agent is
\* served from the cache when no more than cacheTTL has passed since the
\* user agent was classified, and classified again otherwise, with the same
\* result.
C38_FailedCallbackKeepsEntryWithinTtl ==
  /\ [](\A q \in Requests :
          /\ SkipsRemainingSteps(q)
          /\ FailedInCallback(q) =>
               \A r \in Requests :
                 Successive(q, r) =>
                   /\ Published(r) = Published(q)
                   /\ Classified(r)
                        <=> (req[r].at - LastClassifiedAt(q, r) > Cfg(r).cacheTTL))
  /\ [][\A q \in Requests :
          (OnDetectionFails(q) \/ OnBotDetectedFails(q)) => mwCache' = mwCache]_vars

\* a bot whose onBotDetected failed, and the next request for it, later
\* but within cacheTTL, served from the cache and handled to its end
C38_Witness ==
  \E q, r \in Requests :
    /\ Successive(q, r)
    /\ RejectedWith(q, "onBotDetected")
    /\ Classified(q) /\ ~Classified(r)
    /\ req[r].at > req[q].at
    /\ req[r].pc = "done"

====
